---- MODULE Spec2Model ----
(***************************************************************************)
(* State-machine model of the Streamlit Geomap widget                      *)
(* (frontend/src/GeomapComponent.tsx): the React class component, the DOM  *)
(* container it owns, the ArcGIS MapView it wraps, the timers and promises *)
(* it leaves pending, and the values it sends to the Streamlit host.       *)
(*                                                                         *)
(* JavaScript runs one task at a time, so every action below is one task   *)
(* (a lifecycle commit, a timer callback, a promise continuation, a DOM    *)
(* event) run to completion.  Handlers are operators on a record `w` that  *)
(* holds every variable; an action applies a handler to the current        *)
(* record and commits the result.                                          *)
(***************************************************************************)
EXTENDS Integers, Sequences, FiniteSets, TLC

\* ------------------------------------------------------------------ bounds
\* User and host events (clicks, pointer moves, args updates) in one run.
MaxEvents == 3

\* initializeMapSafely: const maxRetries = 50
maxRetries == 50

\* ------------------------------------------------------- optional values
\* A nullable reference is a sequence of length <= 1.
Null == << >>
Some(x) == << x >>
IsNull(o) == Len(o) = 0
Val(o) == o[1]

\* ---------------------------------------------------------- JSON values
\* A value handed to Streamlit.setComponentValue, tagged with its JSON kind.
JStr(s) == [kind |-> "string", val |-> s]
JNum(n) == [kind |-> "number", val |-> n]
JBool(b) == [kind |-> "boolean", val |-> b]
JNull == [kind |-> "null", val |-> 0]
JArr(a) == [kind |-> "array", val |-> a]
JObj(r) == [kind |-> "object", val |-> r]

\* new Date().toISOString(): an ISO-8601 string; the instant is not modelled.
NowISO == JStr("iso-8601")

\* ------------------------------------------------------- the host's args
\* GeoJSON features (interface GeoJSONFeature).  `properties` is optional;
\* an attribute object is a set of <<key, value>> pairs.
FeatA == [geometry |-> [type |-> "Point", coordinates |-> <<10, 20>>],
          properties |-> Some({<<"name", "A">>})]
FeatB == [geometry |-> [type |-> "Point", coordinates |-> <<30, 40>>],
          properties |-> Null]
FeatLine == [geometry |-> [type |-> "LineString", coordinates |-> <<50, 60>>],
             properties |-> Some({<<"name", "L">>})]

\* Layer configs (interface FeatureLayerConfig plus the `type` and `data`
\* of the unified layers arg).  "" stands for an absent string field;
\* `invalid` says that the SDK's FeatureLayer constructor throws on the
\* config (a malformed renderer, say).
CfgOf(type, url, portal_item_id) ==
  [type |-> type, url |-> url, portal_item_id |-> portal_item_id,
   invalid |-> FALSE, data |-> Null]
CfgUrl == CfgOf("feature", "u1", "")
CfgPortal == CfgOf("feature", "", "p1")
CfgBoth == CfgOf("feature", "u2", "p2")
CfgNone == CfgOf("feature", "", "")
CfgBad == [CfgOf("feature", "u3", "") EXCEPT !.invalid = TRUE]
CfgGeo == [CfgOf("geojson", "", "") EXCEPT !.data = Some(<<FeatA>>)]

\* A legacy feature_layers list: its configs carry no `type`.
Untyped(configs) ==
  [i \in 1..Len(configs) |-> [configs[i] EXCEPT !.type = ""]]

\* The args records the host sends in this model: no data, and a mixed
\* feature collection with two layer configs.
ArgsOf(geojson, feature_layers, layers) ==
  [geojson |-> geojson, feature_layers |-> feature_layers, layers |-> layers,
   enable_selection |-> TRUE, enable_hover |-> TRUE]
ArgsSet == { ArgsOf(Null, Null, Null),
             ArgsOf(Some(<<FeatLine, FeatA, FeatB>>),
                    Some(<<CfgPortal, CfgNone>>), Null) }

\* Args that exercise the layer args: a legacy list with every kind of
\* config, a changed legacy list with other data, both layer args at once
\* with a geojson entry in the unified one, and an empty collection.
ArgsLayers ==
  { ArgsOf(Some(<<FeatLine, FeatA, FeatB>>),
           Some(Untyped(<<CfgBoth, CfgNone, CfgBad, CfgPortal>>)), Null),
    ArgsOf(Some(<<FeatB>>), Some(Untyped(<<CfgUrl>>)), Null),
    ArgsOf(Null, Some(Untyped(<<CfgPortal>>)), Some(<<CfgUrl, CfgGeo>>)),
    ArgsOf(Some(<< >>), Null, Null) }

\* Args with one of the interaction flags off (enable_selection,
\* enable_hover; README, Parameters).
ArgsFlags ==
  LET data == ArgsOf(Some(<<FeatLine, FeatA, FeatB>>), Null, Null)
  IN { [data EXCEPT !.enable_selection = FALSE],
       [data EXCEPT !.enable_hover = FALSE] }

\* Screen positions a pointer event can have: over the place where a
\* feature's point is drawn (FeatA's), or over empty map (<<0, 0>>).
Positions == { <<10, 20>>, <<0, 0>> }

VARIABLES
  \* --- fields of the component instance
  mapRefCurrent,        \* this.mapRef.current is non-null
  mapView,              \* this.mapView: Null or Some(view id)
  graphicsLayer,        \* this.graphicsLayer: Null or Some(layer id)
  featureLayers,        \* this.featureLayers: sequence of layer ids
  lastHoveredFeature,   \* this.lastHoveredFeature: Null or Some(feature data)
  hoverThrottleTimeout, \* this.hoverThrottleTimeout is non-null
  isUnmounted,          \* this.isUnmounted
  domObserver,          \* this.domObserver is non-null
  mapLoaded,            \* this.state.mapLoaded
  error,                \* this.state.error ("" = undefined)
  selectedGraphics,     \* this.state.selectedGraphics: sequence of graphic ids
  args,                 \* this.props.args: Null or Some(record of ArgsSet)
  \* --- SDK objects
  heap,                 \* Graphic objects by id: [feature, size, original]
  layerGraphics,        \* graphics of the graphics layer (graphic ids)
  layerObjs,            \* FeatureLayer objects by id: [src, key, destroyed]
  mapLayers,            \* view.map.layers (layer ids; the graphics layer too)
  liveViews,            \* MapViews created and not destroyed
  handlersOn,           \* the view has the click / pointer-move handlers
  \* --- the DOM
  containerConnected,   \* the map container is attached to the document
  children,             \* child nodes of the map container, in order
  reactNodes,           \* container children React believes it has mounted
  \* --- the host framework and pending work
  lifecycle,            \* "constructed", "mounted", "unmounted"
  renderPending,        \* a re-render is scheduled (setState or new props)
  initPc,               \* initializeMap: "none", "when", "goTo", "done"
  initLocals,           \* initializeMap's locals captured before its await
  retryTimer,           \* pending initializeMapSafely retry: Null or Some(n)
  cleanupTimers,        \* pending setTimeout(cleanup, 0) callbacks
  hoverTimer,           \* pending hover throttle timer: Null or Some(position)
  clickTasks,           \* pending hitTests of clicks (handleMapClick awaiting)
  hoverTasks,           \* pending hitTests of hovers (timer callback awaiting)
  whenTasks,            \* views whose when() an initializeSimpleMap awaits
  \* --- history
  sentNow,              \* values given to setComponentValue by the last task
  setStateNow,          \* the last task called setState
  cleanupLog,           \* SDK and DOM calls cleanup() made in the last task
  cleanupRuns,          \* whether and how cleanup() ran in the last task
  counts                \* calls so far: mounts, unmounts, views, events, ...

vars == << mapRefCurrent, mapView, graphicsLayer, featureLayers,
           lastHoveredFeature, hoverThrottleTimeout, isUnmounted, domObserver,
           mapLoaded, error, selectedGraphics, args, heap, layerGraphics,
           layerObjs, mapLayers, liveViews, handlersOn, containerConnected,
           children, reactNodes, lifecycle, renderPending, initPc, initLocals,
           retryTimer, cleanupTimers, hoverTimer, clickTasks, hoverTasks,
           whenTasks, sentNow, setStateNow, cleanupLog, cleanupRuns,
           counts >>

\* The current state as one record, for the handlers to work on.  `exc` is
\* the exception in flight inside a handler; it is never part of a state.
World ==
  [ mapRefCurrent |-> mapRefCurrent, mapView |-> mapView,
    graphicsLayer |-> graphicsLayer, featureLayers |-> featureLayers,
    lastHoveredFeature |-> lastHoveredFeature,
    hoverThrottleTimeout |-> hoverThrottleTimeout,
    isUnmounted |-> isUnmounted, domObserver |-> domObserver,
    mapLoaded |-> mapLoaded, error |-> error,
    selectedGraphics |-> selectedGraphics, args |-> args, heap |-> heap,
    layerGraphics |-> layerGraphics, layerObjs |-> layerObjs,
    mapLayers |-> mapLayers, liveViews |-> liveViews,
    handlersOn |-> handlersOn, containerConnected |-> containerConnected,
    children |-> children, reactNodes |-> reactNodes,
    lifecycle |-> lifecycle, renderPending |-> renderPending,
    initPc |-> initPc, initLocals |-> initLocals, retryTimer |-> retryTimer,
    cleanupTimers |-> cleanupTimers, hoverTimer |-> hoverTimer,
    clickTasks |-> clickTasks, hoverTasks |-> hoverTasks,
    whenTasks |-> whenTasks,
    sentNow |-> << >>, setStateNow |-> FALSE,
    cleanupLog |-> << >>,
    cleanupRuns |-> [ran |-> FALSE, steps |-> {}, escaped |-> FALSE],
    counts |-> counts, exc |-> FALSE ]

Commit(w) ==
  /\ mapRefCurrent' = w.mapRefCurrent /\ mapView' = w.mapView
  /\ graphicsLayer' = w.graphicsLayer /\ featureLayers' = w.featureLayers
  /\ lastHoveredFeature' = w.lastHoveredFeature
  /\ hoverThrottleTimeout' = w.hoverThrottleTimeout
  /\ isUnmounted' = w.isUnmounted /\ domObserver' = w.domObserver
  /\ mapLoaded' = w.mapLoaded /\ error' = w.error
  /\ selectedGraphics' = w.selectedGraphics /\ args' = w.args
  /\ heap' = w.heap /\ layerGraphics' = w.layerGraphics
  /\ layerObjs' = w.layerObjs /\ mapLayers' = w.mapLayers
  /\ liveViews' = w.liveViews /\ handlersOn' = w.handlersOn
  /\ containerConnected' = w.containerConnected /\ children' = w.children
  /\ reactNodes' = w.reactNodes /\ lifecycle' = w.lifecycle
  /\ renderPending' = w.renderPending /\ initPc' = w.initPc
  /\ initLocals' = w.initLocals /\ retryTimer' = w.retryTimer
  /\ cleanupTimers' = w.cleanupTimers /\ hoverTimer' = w.hoverTimer
  /\ clickTasks' = w.clickTasks /\ hoverTasks' = w.hoverTasks
  /\ whenTasks' = w.whenTasks
  /\ sentNow' = w.sentNow /\ setStateNow' = w.setStateNow
  /\ cleanupLog' = w.cleanupLog /\ cleanupRuns' = w.cleanupRuns
  /\ counts' = w.counts

\* ------------------------------------------------------------ utilities
InSeq(x, s) == \E i \in 1..Len(s) : s[i] = x
Without(s, x) == SelectSeq(s, LAMBDA y : y # x)
RECURSIVE Concat(_)
Concat(ss) == IF ss = << >> THEN << >> ELSE Head(ss) \o Concat(Tail(ss))

\* DOM nodes of the container: the "loading" and "error" elements render()
\* can put there, and the root element the SDK's MapView adds.
SdkRoot == "esri-view-root"

\* render(), lines 99 and 115: the container children render() asks for.
RenderedChildren(loaded, err) ==
  (IF ~loaded /\ err = "" THEN {"loading"} ELSE {}) \cup
  (IF err # "" THEN {"error"} ELSE {})

\* this.setState(...): React applies the update and schedules a re-render of
\* a mounted component; on an unmounted one the call changes nothing.
SetState(w, w2) ==
  IF w.lifecycle = "mounted"
  THEN [w2 EXCEPT !.renderPending = TRUE, !.setStateNow = TRUE]
  ELSE [w EXCEPT !.setStateNow = TRUE]

\* The value is an event object with the given tag.
IsEvent(value, tag) ==
  "event" \in DOMAIN value /\ value.event = JStr(tag)

\* Streamlit.setComponentValue(value); counts.loaded and counts.errors
\* count the map_loaded and error events sent.
SetComponentValue(w, value) ==
  [w EXCEPT !.sentNow = Append(@, value),
            !.counts.loaded = IF IsEvent(value, "map_loaded")
                              THEN @ + 1 ELSE @,
            !.counts.errors = IF IsEvent(value, "error")
                              THEN @ + 1 ELSE @]

\* ------------------------------------------------------------- cleanup()
\* One SDK or DOM call of cleanup(), which throws when its kind is in T.
Call(w, kind, step, T, isChild) ==
  [w EXCEPT !.cleanupLog = Append(@, [call |-> kind, step |-> step,
                                      threw |-> kind \in T,
                                      connected |-> w.containerConnected,
                                      isChild |-> isChild]),
            !.exc = kind \in T]

\* catch (error) { console.log(...) }
Catch(w) == [w EXCEPT !.exc = FALSE]

\* A statement reached only when no exception is in flight.
Enter(w, step) == [w EXCEPT !.cleanupRuns.steps = @ \cup {step}]

\* this.mapView && !this.mapView.destroyed
ViewUsable(w) == ~IsNull(w.mapView) /\ Val(w.mapView) \in w.liveViews

\* Lines 263-275: pending hover timeout and the DOM observer.
CleanupTimersAndObserver(w) ==
  IF w.exc THEN w ELSE
  LET a == Enter(w, 0)
      b == IF a.hoverThrottleTimeout
           THEN [a EXCEPT !.hoverTimer = Null, !.hoverThrottleTimeout = FALSE]
           ELSE a
  IN [b EXCEPT !.domObserver = FALSE]

\* Step 1, lines 277-291.
CleanupHandles(w, T) ==
  IF w.exc THEN w ELSE
  LET a == Enter(w, 1) IN
  IF ViewUsable(a)
  THEN LET b == Call(a, "removeHandles", 1, T, TRUE)
       IN Catch(IF b.exc THEN b ELSE [b EXCEPT !.handlersOn = FALSE])
  ELSE a

\* Variant of CleanupGraphicsLayer: the reference is cleared inside the try
\* block, after the calls that may throw.
CleanupGraphicsLayerNullInTry(w, T) ==
  IF w.exc THEN w ELSE
  LET a == Enter(w, 2) IN
  IF IsNull(a.graphicsLayer) THEN a ELSE
  LET gl == Val(a.graphicsLayer)
      b == Call(a, "removeAll", 2, T, TRUE)
      c == IF b.exc THEN b ELSE [b EXCEPT !.layerGraphics = << >>]
      d == IF ~c.exc /\ ViewUsable(c) /\ InSeq(gl, c.mapLayers)
           THEN LET r == Call(c, "mapRemove", 2, T, TRUE)
                IN IF r.exc THEN r
                   ELSE [r EXCEPT !.mapLayers = Without(@, gl)]
           ELSE c
      e == IF d.exc THEN d
           ELSE LET r == Call(d, "layerDestroy", 2, T, TRUE)
                IN IF r.exc THEN r
                   ELSE [r EXCEPT !.layerObjs[gl].destroyed = TRUE]
  IN Catch(IF e.exc THEN e ELSE [e EXCEPT !.graphicsLayer = Null])

\* Step 2, lines 293-327.
CleanupGraphicsLayer(w, T) ==
  IF w.exc THEN w ELSE
  LET a == Enter(w, 2) IN
  IF IsNull(a.graphicsLayer) THEN a ELSE
  LET gl == Val(a.graphicsLayer)
      b == Call(a, "removeAll", 2, T, TRUE)
      c == IF b.exc THEN b ELSE [b EXCEPT !.layerGraphics = << >>]
      d == IF ~c.exc /\ ViewUsable(c) /\ InSeq(gl, c.mapLayers)
           THEN LET r == Call(c, "mapRemove", 2, T, TRUE)
                IN IF r.exc THEN r
                   ELSE [r EXCEPT !.mapLayers = Without(@, gl)]
           ELSE c
      e == IF d.exc THEN d
           ELSE LET r == Call(d, "layerDestroy", 2, T, TRUE)
                IN IF r.exc THEN r
                   ELSE [r EXCEPT !.layerObjs[gl].destroyed = TRUE]
  IN [Catch(e) EXCEPT !.graphicsLayer = Null]

\* Step 3, lines 332-354: the body of featureLayers.forEach for one layer.
CleanupOneFeatureLayer(w, T, layer) ==
  LET c == IF ViewUsable(w) /\ InSeq(layer, w.mapLayers)
           THEN LET r == Call(w, "mapRemove", 3, T, TRUE)
                IN IF r.exc THEN r
                   ELSE [r EXCEPT !.mapLayers = Without(@, layer)]
           ELSE w
      d == IF c.exc THEN c
           ELSE LET r == Call(c, "layerDestroy", 3, T, TRUE)
                IN IF r.exc THEN r
                   ELSE [r EXCEPT !.layerObjs[layer].destroyed = TRUE]
  IN Catch(d)

RECURSIVE CleanupEachFeatureLayer(_, _, _)
CleanupEachFeatureLayer(w, T, layers) ==
  IF layers = << >> \/ w.exc THEN w
  ELSE CleanupEachFeatureLayer(CleanupOneFeatureLayer(w, T, Head(layers)),
                               T, Tail(layers))

\* Step 3, lines 329-356.
CleanupFeatureLayers(w, T) ==
  IF w.exc THEN w ELSE
  LET a == CleanupEachFeatureLayer(Enter(w, 3), T, w.featureLayers)
  IN IF a.exc THEN a
     ELSE [a EXCEPT !.featureLayers = << >>, !.counts.twin = << >>]

\* MapView.destroy(): the view is destroyed; whether the SDK takes its root
\* element out of the container is the SDK's business (sdkRemoves).
SdkDestroy(w, sdkRemoves) ==
  [w EXCEPT !.liveViews = @ \ {Val(w.mapView)},
            !.handlersOn = FALSE,
            !.children = IF sdkRemoves THEN Without(@, SdkRoot) ELSE @]

\* Variant of CleanupMapView: destroy() is called outside a try block.
CleanupMapViewNoTry(w, T, sdkRemoves) ==
  IF w.exc THEN w ELSE
  LET a == Enter(w, 4) IN
  IF IsNull(a.mapView) THEN a ELSE
  LET b == IF Val(a.mapView) \in a.liveViews
           THEN LET r == Call(a, "viewDestroy", 4, T, TRUE)
                IN IF r.exc THEN r ELSE SdkDestroy(r, sdkRemoves)
           ELSE a
  IN IF b.exc THEN b ELSE [b EXCEPT !.mapView = Null]

\* Step 4, lines 358-388.
CleanupMapView(w, T, sdkRemoves) ==
  IF w.exc THEN w ELSE
  LET a == Enter(w, 4) IN
  IF IsNull(a.mapView) THEN a ELSE
  LET b == IF Val(a.mapView) \in a.liveViews
           THEN LET r == Call(a, "viewDestroy", 4, T, TRUE)
                IN IF r.exc THEN r ELSE SdkDestroy(r, sdkRemoves)
           ELSE a
  IN [Catch(b) EXCEPT !.mapView = Null]

\* Variant of RemoveChildren: the root element the SDK added is removed by
\* name, whether or not it is still a child of the container.
RemoveChildrenStale(w, T, n) ==
  LET r == Call(w, "removeChild", 5, T, InSeq(SdkRoot, w.children))
  IN Catch(IF r.exc THEN r ELSE [r EXCEPT !.children = Without(@, SdkRoot)])

\* Step 5, lines 404-432: the while loop over firstChild; n is childIndex.
RECURSIVE RemoveChildren(_, _, _)
RemoveChildren(w, T, n) ==
  IF w.children = << >> THEN w
  ELSE LET child == Head(w.children)
           r == Call(w, "removeChild", 5, T, InSeq(child, w.children))
       IN IF r.exc THEN Catch(r)
          ELSE LET s == [r EXCEPT !.children = Without(@, child)]
               IN IF n + 1 > 100 THEN s ELSE RemoveChildren(s, T, n + 1)

\* Step 5, lines 390-445.
CleanupContainer(w, T) ==
  IF w.exc THEN w ELSE
  LET a == Enter(w, 5) IN
  IF a.mapRefCurrent /\ a.containerConnected
  THEN Catch(RemoveChildren(a, T, 0))
  ELSE a

\* Step 6, lines 447-449.
CleanupHoverState(w) ==
  IF w.exc THEN w ELSE [Enter(w, 6) EXCEPT !.lastHoveredFeature = Null]

\* Variant of Cleanup: the container is emptied before the view is destroyed.
CleanupDomFirst(w, T, sdkRemoves) ==
  LET start == [w EXCEPT !.cleanupRuns.ran = TRUE,
                         !.counts.cleanups = @ + 1]
      body == CleanupHoverState(
                CleanupMapView(
                  CleanupContainer(
                    CleanupFeatureLayers(
                      CleanupGraphicsLayer(
                        CleanupHandles(
                          CleanupTimersAndObserver(start), T), T), T),
                    T), T, sdkRemoves))
  IN Catch(body)

\* The kinds of call a cleanup() run started in state w can reach; a kind it
\* cannot reach throws nothing.
CallsReachable(w) ==
  (IF ViewUsable(w) THEN {"removeHandles", "mapRemove", "viewDestroy"} ELSE {})
  \cup (IF ~IsNull(w.graphicsLayer) THEN {"removeAll", "layerDestroy"} ELSE {})
  \cup (IF w.featureLayers # << >> THEN {"layerDestroy"} ELSE {})
  \cup (IF w.mapRefCurrent /\ w.containerConnected /\ w.children # << >>
        THEN {"removeChild"} ELSE {})

\* cleanup(), lines 245-458.  T: the kinds of call that throw in this run.
Cleanup(w, T, sdkRemoves) ==
  LET start == [w EXCEPT !.cleanupRuns.ran = TRUE,
                         !.counts.cleanups = @ + 1]
      body == CleanupHoverState(
                CleanupContainer(
                  CleanupMapView(
                    CleanupFeatureLayers(
                      CleanupGraphicsLayer(
                        CleanupHandles(
                          CleanupTimersAndObserver(start), T), T), T),
                    T, sdkRemoves), T))
      caught == Catch(body)
  IN [caught EXCEPT !.cleanupRuns.escaped = caught.exc]

\* ------------------------------------------------- layers and graphics
\* Variant of createFeatureLayers for one config: the portal item id is
\* used when the config has both a url and a portal item id.
FeatureLayerOfPortalFirst(config) ==
  LET layerConfig ==
        IF config.portal_item_id # ""
        THEN << [src |-> "portalItem", key |-> config.portal_item_id,
                 destroyed |-> FALSE] >>
        ELSE IF config.url # ""
        THEN << [src |-> "url", key |-> config.url, destroyed |-> FALSE] >>
        ELSE << >>
  IN IF layerConfig # << >> /\ config.invalid THEN << >> ELSE layerConfig

\* createFeatureLayers, lines 494-547, for one config: the FeatureLayer it
\* constructs; nothing when the config has neither url nor portal id (the
\* early return) or when `new FeatureLayer` throws (the catch, line 544).
FeatureLayerOf(config) ==
  LET layerConfig ==
        IF config.url # ""
        THEN << [src |-> "url", key |-> config.url, destroyed |-> FALSE] >>
        ELSE IF config.portal_item_id # ""
        THEN << [src |-> "portalItem", key |-> config.portal_item_id,
                 destroyed |-> FALSE] >>
        ELSE << >>
  IN IF layerConfig # << >> /\ config.invalid THEN << >> ELSE layerConfig

\* createFeatureLayers, lines 491-550.
createFeatureLayers(configs) ==
  Concat([i \in 1..Len(configs) |-> FeatureLayerOf(configs[i])])

\* createLayersFromConfigs, lines 460-489.
createLayersFromConfigs(layerConfigs) ==
  Concat([i \in 1..Len(layerConfigs) |->
            IF layerConfigs[i].type = "feature"
            THEN createFeatureLayers(<< layerConfigs[i] >>)
            ELSE << >>])

\* new GraphicsLayer()
NewGraphicsLayer == [src |-> "graphics", key |-> "", destroyed |-> FALSE]

\* Ids of objects appended to a store that held n objects.
NewIds(n, objs) == [i \in 1..Len(objs) |-> n + i]

\* processGeoJSON, lines 1046-1075, for one feature.
GraphicOf(feature) ==
  IF feature.geometry.type = "Point"
  THEN << [geometry |-> [type |-> "point",
                         longitude |-> feature.geometry.coordinates[1],
                         latitude |-> feature.geometry.coordinates[2]],
           symbol |-> [size |-> 8, outline |-> "white"],
           attributes |-> IF IsNull(feature.properties) THEN {}
                          ELSE Val(feature.properties),
           original |-> Null] >>
  ELSE << >>

\* processGeoJSON, lines 1043-1078.
processGeoJSON(features) ==
  Concat([i \in 1..Len(features) |-> GraphicOf(features[i])])

\* geojson && geojson.features && geojson.features.length > 0
HasFeatures(geojson) == ~IsNull(geojson) /\ Len(Val(geojson)) > 0

\* graphicsLayer.addMany(processGeoJSON(geojson)): the new Graphic objects
\* go on the heap and their ids into the layer.
AddGraphics(w, geojson) ==
  LET graphics == processGeoJSON(Val(geojson))
  IN [w EXCEPT !.heap = @ \o graphics,
               !.layerGraphics = @ \o NewIds(Len(w.heap), graphics)]

\* The feature description sent with click, hover and selection events
\* (lines 600-608, 655-663, 730-738).
FeatureData(g) ==
  JObj([attributes |-> JObj(g.attributes),
        geometry |-> JObj([type |-> JStr(g.geometry.type),
                           coordinates |->
                             IF g.geometry.type = "point"
                             THEN JArr(<< JNum(g.geometry.longitude),
                                          JNum(g.geometry.latitude) >>)
                             ELSE JNull])])

\* view.hitTest(screenPoint): the first graphic of the layer drawn at the
\* point, if the view shows one there.
HitTest(w, pos) ==
  LET hits == SelectSeq(w.layerGraphics,
                LAMBDA g : << w.heap[g].geometry.longitude,
                              w.heap[g].geometry.latitude >> = pos)
  IN IF hits = << >> THEN Null ELSE Some(Head(hits))

\* ------------------------------------------------------ initialization
\* The catch block of initializeMap, lines 1022-1040.
InitFailed(w, message) ==
  IF ~w.isUnmounted
  THEN SetComponentValue(
         SetState(w, [w EXCEPT !.error = "Failed to initialize map"]),
         [event |-> JStr("error"), error |-> JStr(message),
          timestamp |-> NowISO])
  ELSE w

\* Lines 896-912: the layers arg takes precedence over feature_layers.
InitialFeatureLayers(a) ==
  IF ~IsNull(a.layers) THEN createLayersFromConfigs(Val(a.layers))
  ELSE IF ~IsNull(a.feature_layers)
       THEN createFeatureLayers(Val(a.feature_layers))
       ELSE << >>

\* The args of a second component that is given the configs of the legacy
\* feature_layers arg through the unified layers arg instead, each with
\* type 'feature' (API documentation, Backward Compatibility).  Of that component
\* the model keeps the feature layers alone, in counts.twin; they are
\* assigned where the code assigns this.featureLayers.
Twin(a) ==
  IF IsNull(a.layers) /\ ~IsNull(a.feature_layers)
  THEN [a EXCEPT !.feature_layers = Null,
                 !.layers = Some([i \in 1..Len(Val(a.feature_layers)) |->
                                    [Val(a.feature_layers)[i]
                                       EXCEPT !.type = "feature"]])]
  ELSE a

\* new MapView({container, map, ...}), line 957: the view exists and has put
\* its root element into the container; initializeMap then awaits when().
NewMapView(w) ==
  LET id == w.counts.views + 1
  IN [w EXCEPT !.mapView = Some(id), !.liveViews = @ \cup {id},
               !.children = Append(@, SdkRoot), !.counts.views = id,
               !.counts.lateViews =
                  IF w.counts.unmounts > 0 THEN @ + 1 ELSE @,
               !.initPc = "when",
               !.initLocals = [geojson |-> Val(w.args).geojson]]

\* initializeMap up to its first await, lines 853-967.  sdkThrows: the
\* MapView constructor throws.
initializeMap(w, sdkThrows) ==
  IF w.isUnmounted THEN w
  ELSE IF ~w.mapRefCurrent
  THEN SetState(w, [w EXCEPT !.error = "Map container not found"])
  ELSE IF ~w.containerConnected
  THEN SetState(w, [w EXCEPT !.error = "Map container is not attached to DOM"])
  ELSE
    LET gl == Len(w.layerObjs) + 1
        a == [w EXCEPT !.layerObjs = Append(@, NewGraphicsLayer),
                       !.graphicsLayer = Some(gl)]
        objs == InitialFeatureLayers(Val(w.args))
        b == [a EXCEPT !.featureLayers = NewIds(Len(a.layerObjs), objs),
                       !.layerObjs = @ \o objs,
                       !.counts.twin = InitialFeatureLayers(Twin(Val(w.args)))]
        c == [b EXCEPT !.mapLayers = << gl >> \o b.featureLayers]
    IN IF b.isUnmounted THEN b
       ELSE IF c.isUnmounted \/ ~c.mapRefCurrent \/ ~c.containerConnected
       THEN c
       ELSE IF sdkThrows THEN InitFailed(c, "MapView failed")
       ELSE NewMapView(c)

\* A chain of initializeMapSafely calls ends in this call, made with the
\* given retries: counts.chains records how, and for a chain that gave up
\* after how many retries.
ChainEnds(w, how, retries) ==
  [w EXCEPT !.counts.chains =
              Append(@, [how |-> how,
                         retries |-> IF how = "failed" THEN retries ELSE 0])]

\* Variant of initializeMapSafely: the retry bound is tested with <=.
initializeMapSafelyOneMore(w0, retries, sdkThrows) ==
  LET w == [w0 EXCEPT !.counts.unready =
                         IF w0.counts.ready < w0.counts.mounts THEN @ + 1 ELSE @]
  IN IF w.isUnmounted THEN ChainEnds(w, "unmounted", retries)
     ELSE IF IsNull(w.args)
     THEN IF retries <= maxRetries
          THEN [w EXCEPT !.retryTimer = Some(retries + 1)]
          ELSE LET e == ChainEnds(w, "failed", retries)
               IN SetState(e, [e EXCEPT
                                 !.error = "Failed to connect to Streamlit"])
     ELSE initializeMap(ChainEnds(w, "initializeMap", retries), sdkThrows)

\* initializeMapSafely, lines 821-851.  counts.unready: the calls made while
\* a componentDidMount had not yet sent its component-ready signal.
initializeMapSafely(w0, retries, sdkThrows) ==
  LET w == [w0 EXCEPT !.counts.unready =
                         IF w0.counts.ready < w0.counts.mounts THEN @ + 1 ELSE @]
  IN IF w.isUnmounted THEN ChainEnds(w, "unmounted", retries)
     ELSE IF IsNull(w.args)
     THEN IF retries < maxRetries
          THEN [w EXCEPT !.retryTimer = Some(retries + 1)]
          ELSE LET e == ChainEnds(w, "failed", retries)
               IN SetState(e, [e EXCEPT
                                 !.error = "Failed to connect to Streamlit"])
     ELSE initializeMap(ChainEnds(w, "initializeMap", retries), sdkThrows)

\* Variant of the end of initializeMap: without the final unmount check.
InitFinishNoCheck(w) ==
  LET g == w.initLocals.geojson
      a == SetState(w, [w EXCEPT !.mapLoaded = TRUE])
  IN SetComponentValue([a EXCEPT !.initPc = "done"],
       [event |-> JStr("map_loaded"), basemap |-> JStr("topo-vector"),
        center |-> JArr(<< JNum(-118), JNum(34) >>), zoom |-> JNum(12),
        featuresRendered |-> JNum(IF IsNull(g) THEN 0 ELSE Len(Val(g))),
        featureLayersLoaded |-> JNum(Len(w.featureLayers)),
        timestamp |-> NowISO])

\* Lines 997-1016: the end of a successful initializeMap.
InitFinish(w) ==
  IF w.isUnmounted THEN [w EXCEPT !.initPc = "done"]
  ELSE
    LET g == w.initLocals.geojson
        a == SetState(w, [w EXCEPT !.mapLoaded = TRUE])
    IN SetComponentValue([a EXCEPT !.initPc = "done"],
         [event |-> JStr("map_loaded"), basemap |-> JStr("topo-vector"),
          center |-> JArr(<< JNum(-118), JNum(34) >>), zoom |-> JNum(12),
          featuresRendered |-> JNum(IF IsNull(g) THEN 0 ELSE Len(Val(g))),
          featureLayersLoaded |-> JNum(Len(w.featureLayers)),
          timestamp |-> NowISO])

\* addEventHandlers, lines 552-574.
addEventHandlers(w) ==
  IF IsNull(w.mapView) THEN w ELSE [w EXCEPT !.handlersOn = TRUE]

\* initializeMap after `await this.mapView.when()`, lines 968-995.
InitAfterWhen(w, T, sdkRemoves) ==
  IF w.isUnmounted
  THEN [Cleanup(w, T, sdkRemoves) EXCEPT !.initPc = "done"]
  ELSE
    LET a == addEventHandlers(w)
        g == a.initLocals.geojson
    IN IF HasFeatures(g)
       THEN LET b == AddGraphics(a, g)
            IN IF Len(processGeoJSON(Val(g))) > 0
               THEN [b EXCEPT !.initPc = "goTo"]
               ELSE InitFinish(b)
       ELSE InitFinish(a)

\* ----------------------------------------------------- lifecycle methods
\* setupDOMObserver, lines 772-819.
setupDOMObserver(w) ==
  IF ~w.mapRefCurrent THEN w ELSE [w EXCEPT !.domObserver = TRUE]

\* Streamlit.setComponentReady(), line 146.
setComponentReady(w) == [w EXCEPT !.counts.ready = @ + 1]

\* Variant of componentDidMount: a mount clears the unmount flag.
componentDidMountResetsFlag(w, sdkThrows) ==
  LET a == setupDOMObserver([w EXCEPT !.isUnmounted = FALSE,
                                      !.counts.mounts = @ + 1])
      b == setComponentReady(a)
  IN initializeMapSafely(b, 0, sdkThrows)

\* Variant of componentDidMount: the map is initialized first and the
\* ready signal is sent when initializeMapSafely has returned.
componentDidMountInitFirst(w, sdkThrows) ==
  LET a == setupDOMObserver([w EXCEPT !.counts.mounts = @ + 1])
      b == initializeMapSafely(a, 0, sdkThrows)
  IN setComponentReady(b)

\* componentDidMount, lines 136-151.
componentDidMount(w, sdkThrows) ==
  LET a == setupDOMObserver([w EXCEPT !.counts.mounts = @ + 1])
      b == setComponentReady(a)
  IN initializeMapSafely(b, 0, sdkThrows)

\* Variant of componentWillUnmount: the unmount flag is not set.
componentWillUnmountNoFlag(w) ==
  [w EXCEPT !.cleanupTimers = @ + 1, !.counts.unmounts = @ + 1]

\* componentWillUnmount, lines 220-243.
componentWillUnmount(w) ==
  [w EXCEPT !.isUnmounted = TRUE, !.cleanupTimers = @ + 1,
            !.counts.unmounts = @ + 1]

\* Lines 188-216: the feature layers are replaced by new ones made from the
\* feature_layers arg.
UpdateFeatureLayers(w, configs) ==
  LET a == [w EXCEPT !.mapLayers =
                        SelectSeq(@, LAMBDA l : ~InSeq(l, w.featureLayers)),
                     !.layerObjs =
                        [i \in 1..Len(@) |->
                           IF InSeq(i, w.featureLayers)
                           THEN [@[i] EXCEPT !.destroyed = TRUE] ELSE @[i]]]
      objs == createFeatureLayers(configs)
      ids == NewIds(Len(a.layerObjs), objs)
  IN [a EXCEPT !.featureLayers = ids, !.layerObjs = @ \o objs,
               !.mapLayers = @ \o ids]

\* componentDidUpdate, lines 153-218.
componentDidUpdate(w) ==
  IF ~IsNull(w.mapView) /\ ~IsNull(w.graphicsLayer)
  THEN LET g == Val(w.args).geojson
           a == [w EXCEPT !.layerGraphics = << >>]
           b == IF HasFeatures(g) THEN AddGraphics(a, g) ELSE a
           fl == Val(w.args).feature_layers
           tfl == Twin(Val(w.args)).feature_layers
           c == [b EXCEPT !.counts.twin =
                   IF ~IsNull(tfl) THEN createFeatureLayers(Val(tfl)) ELSE @]
       IN IF ~IsNull(fl) THEN UpdateFeatureLayers(c, Val(fl)) ELSE c
  ELSE w

\* A re-render React commits: the container's children are brought in line
\* with render() (a removal of a node that is no longer a child is React's
\* removeChild DOMException), then componentDidUpdate runs.
ReactCommit(w) ==
  LET want == RenderedChildren(w.mapLoaded, w.error)
      gone == w.reactNodes \ want
      new == want \ w.reactNodes
      a == [w EXCEPT
              !.children = SelectSeq(@, LAMBDA n : n \notin gone)
                           \o (IF "loading" \in new THEN <<"loading">> ELSE << >>)
                           \o (IF "error" \in new THEN <<"error">> ELSE << >>),
              !.reactNodes = want,
              !.counts.domErrors =
                 @ \cup { n \in gone : ~InSeq(n, w.children) },
              !.renderPending = FALSE]
  IN componentDidUpdate(a)

\* ------------------------------------------------- selection and events
\* addSelectionHighlight, lines 744-761.
addSelectionHighlight(g) ==
  [g EXCEPT !.original = Some(g.symbol),
            !.symbol = [size |-> g.symbol.size + 4, outline |-> "yellow"]]

\* removeSelectionHighlight, lines 763-770.
removeSelectionHighlight(g) ==
  IF IsNull(g.original) THEN g
  ELSE [g EXCEPT !.symbol = Val(g.original), !.original = Null]

\* Variant of SelectionEvent: the value carries no event tag.
SelectionEventUntagged(w, selected) ==
  [selectedFeatures |->
     JArr([i \in 1..Len(selected) |-> FeatureData(w.heap[selected[i]])]),
   selectionCount |-> JNum(Len(selected)),
   timestamp |-> NowISO]

\* The feature_selected value, lines 728-741.
SelectionEvent(w, selected) ==
  [event |-> JStr("feature_selected"),
   selectedFeatures |->
     JArr([i \in 1..Len(selected) |-> FeatureData(w.heap[selected[i]])]),
   selectionCount |-> JNum(Len(selected)),
   timestamp |-> NowISO]

\* History: where a graphic is drawn, and the last two of a sequence.
Drawn(w, g) == << w.heap[g].geometry.longitude, w.heap[g].geometry.latitude >>
LastTwo(s) == IF Len(s) > 2 THEN Tail(s) ELSE s

\* Variant of handleFeatureSelection: the enable_selection arg is not read.
handleFeatureSelectionAlways(w, graphic) ==
  IF IsNull(w.mapView) THEN w
  ELSE
    LET isAlreadySelected == InSeq(graphic, w.selectedGraphics)
        newSelectedGraphics ==
          IF isAlreadySelected THEN Without(w.selectedGraphics, graphic)
          ELSE Append(w.selectedGraphics, graphic)
        a == [w EXCEPT !.heap[graphic] =
                IF isAlreadySelected THEN removeSelectionHighlight(@)
                ELSE addSelectionHighlight(@)]
        b == SetState(a, [a EXCEPT !.selectedGraphics = newSelectedGraphics])
    IN SetComponentValue(b, SelectionEvent(b, newSelectedGraphics))

\* handleFeatureSelection, lines 701-742; graphic is the id of the Graphic.
handleFeatureSelection(w, graphic) ==
  IF IsNull(w.mapView) THEN w
  ELSE IF ~Val(w.args).enable_selection THEN w
  ELSE
    LET isAlreadySelected == InSeq(graphic, w.selectedGraphics)
        newSelectedGraphics ==
          IF isAlreadySelected THEN Without(w.selectedGraphics, graphic)
          ELSE Append(w.selectedGraphics, graphic)
        a == [w EXCEPT !.heap[graphic] =
                IF isAlreadySelected THEN removeSelectionHighlight(@)
                ELSE addSelectionHighlight(@)]
        b == SetState(a, [a EXCEPT !.selectedGraphics = newSelectedGraphics])
        c == SetComponentValue(b, SelectionEvent(b, newSelectedGraphics))
    IN [c EXCEPT !.counts.selections =
          LastTwo(Append(@, [feature |-> Drawn(w, graphic),
                             shown |-> /\ w.lifecycle = "mounted"
                                       /\ InSeq(graphic, w.layerGraphics),
                             before |-> Len(w.selectedGraphics),
                             after |-> Len(newSelectedGraphics)]))]

\* handleMapClick up to `await hitTest`, lines 576-590.
handleMapClick(w, pos) ==
  IF IsNull(w.mapView) THEN w
  ELSE [w EXCEPT !.clickTasks =
          Append(@, [screenPoint |-> pos, mapPoint |-> pos,
                     hit |-> HitTest(w, pos)])]

\* handleMapClick after the hit test resolved, lines 592-623.
ClickResolved(w, task) ==
  LET a == IF IsNull(task.hit) THEN w
           ELSE handleFeatureSelection(w, Val(task.hit))
  IN SetComponentValue(a,
       [event |-> JStr("map_clicked"),
        coordinates |-> JArr(<< JNum(task.mapPoint[1]),
                                JNum(task.mapPoint[2]) >>),
        screenPoint |-> JObj([x |-> JNum(task.screenPoint[1]),
                              y |-> JNum(task.screenPoint[2])]),
        feature |-> IF IsNull(task.hit) THEN JNull
                    ELSE FeatureData(w.heap[Val(task.hit)]),
        hasFeature |-> JBool(~IsNull(task.hit)),
        timestamp |-> NowISO])

\* handlePointerMove, lines 630-638 and 698: the throttle timer is re-armed.
handlePointerMove(w, pos) ==
  IF IsNull(w.mapView) THEN w
  ELSE [w EXCEPT !.hoverTimer = Some(pos), !.hoverThrottleTimeout = TRUE]

\* The throttle timer's callback up to `await hitTest`, lines 639-647; with
\* no view, `this.mapView!.hitTest` throws and the catch swallows it.
HoverTimerCallback(w) ==
  LET a == [w EXCEPT !.hoverTimer = Null]
  IN IF IsNull(w.mapView) THEN a
     ELSE [a EXCEPT !.hoverTasks =
             Append(@, [hit |-> HitTest(w, Val(w.hoverTimer))])]

\* Variant of HoverResolved: the enable_hover arg is not read.
HoverResolvedAlways(w, task) ==
  LET hoveredFeature == IF IsNull(task.hit) THEN Null
                        ELSE Some(FeatureData(w.heap[Val(task.hit)]))
  IN IF ~IsNull(hoveredFeature) /\ hoveredFeature # w.lastHoveredFeature
     THEN SetComponentValue(
            [w EXCEPT !.lastHoveredFeature = hoveredFeature],
            [event |-> JStr("feature_hovered"),
             feature |-> Val(hoveredFeature),
             timestamp |-> NowISO])
     ELSE IF IsNull(hoveredFeature) /\ ~IsNull(w.lastHoveredFeature)
     THEN [w EXCEPT !.lastHoveredFeature = Null]
     ELSE w

\* The throttle timer's callback after the hit test resolved, lines 649-693.
HoverResolved(w, task) ==
  LET hoveredFeature == IF IsNull(task.hit) THEN Null
                        ELSE Some(FeatureData(w.heap[Val(task.hit)]))
  IN IF ~IsNull(hoveredFeature) /\ hoveredFeature # w.lastHoveredFeature
     THEN LET a == [w EXCEPT !.lastHoveredFeature = hoveredFeature]
          IN IF Val(w.args).enable_hover
             THEN SetComponentValue(a,
                    [event |-> JStr("feature_hovered"),
                     feature |-> Val(hoveredFeature),
                     timestamp |-> NowISO])
             ELSE a
     ELSE IF IsNull(hoveredFeature) /\ ~IsNull(w.lastHoveredFeature)
     THEN [w EXCEPT !.lastHoveredFeature = Null]
     ELSE w

\* s without its i-th element.
RemoveAt(s, i) == SubSeq(s, 1, i - 1) \o SubSeq(s, i + 1, Len(s))

\* ------------------------------------------------------------ the machine
\* The state of a constructed component that React has not mounted yet
\* (field initializers, lines 57-70).
ConstructedWith(loaded) ==
  /\ mapRefCurrent = FALSE /\ mapView = Null /\ graphicsLayer = Null
  /\ featureLayers = << >> /\ lastHoveredFeature = Null
  /\ hoverThrottleTimeout = FALSE /\ isUnmounted = FALSE
  /\ domObserver = FALSE /\ mapLoaded = loaded /\ error = ""
  /\ selectedGraphics = << >>
  /\ heap = << >> /\ layerGraphics = << >> /\ layerObjs = << >>
  /\ mapLayers = << >> /\ liveViews = {} /\ handlersOn = FALSE
  /\ containerConnected = FALSE /\ children = << >> /\ reactNodes = {}
  /\ lifecycle = "constructed" /\ renderPending = FALSE
  /\ initPc = "none" /\ initLocals = [geojson |-> Null]
  /\ retryTimer = Null /\ cleanupTimers = 0 /\ hoverTimer = Null
  /\ clickTasks = << >> /\ hoverTasks = << >> /\ whenTasks = {}
  /\ sentNow = << >> /\ setStateNow = FALSE /\ cleanupLog = << >>
  /\ cleanupRuns = [ran |-> FALSE, steps |-> {}, escaped |-> FALSE]
  /\ counts = [mounts |-> 0, unmounts |-> 0, ready |-> 0, views |-> 0,
               events |-> 0, cleanups |-> 0,
               lateViews |-> 0, selections |-> << >>,
               domErrors |-> {}, twin |-> << >>, unready |-> 0, chains |-> << >>,
               loaded |-> 0, errors |-> 0]

\* state = { mapLoaded: false, ... }, lines 66-70.
Constructed == ConstructedWith(FALSE)

\* React mounts the component: render(), the container enters the document,
\* the ref is attached, componentDidMount runs.  Under React.StrictMode in
\* development (index.tsx) React then at once runs componentWillUnmount and
\* componentDidMount again on the same instance, DOM and ref untouched.  A
\* setState made inside these lifecycle calls is flushed before the task ends.
Mount(strict, sdkThrows) ==
  /\ lifecycle = "constructed"
  /\ LET w0 == [World EXCEPT !.lifecycle = "mounted",
                             !.mapRefCurrent = TRUE,
                             !.containerConnected = TRUE,
                             !.children = <<"loading">>,
                             !.reactNodes = {"loading"}]
         w1 == componentDidMount(w0, sdkThrows)
         w2 == IF strict
               THEN componentDidMount(componentWillUnmount(w1), sdkThrows)
               ELSE w1
     IN Commit(IF w2.renderPending THEN ReactCommit(w2) ELSE w2)

\* React unmounts the component: componentWillUnmount runs, then React
\* detaches the ref and takes the component's DOM out of the document.
Unmount ==
  /\ lifecycle = "mounted"
  /\ Commit([componentWillUnmount(World) EXCEPT
               !.mapRefCurrent = FALSE, !.containerConnected = FALSE,
               !.lifecycle = "unmounted", !.renderPending = FALSE])

\* The host sends new args: React re-renders the component with them.
ArgsUpdate(a) ==
  /\ lifecycle = "mounted"
  /\ counts.events < MaxEvents
  /\ Commit(ReactCommit([World EXCEPT !.args = Some(a),
                                      !.counts.events = @ + 1,
                                      !.counts.selections = << >>]))

\* The re-render a setState scheduled.
ReRender ==
  /\ lifecycle = "mounted"
  /\ renderPending
  /\ Commit(ReactCommit(World))

\* setTimeout(() => this.initializeMapSafely(retries + 1), 100) fires.
RetryTimerFires(sdkThrows) ==
  /\ ~IsNull(retryTimer)
  /\ Commit(initializeMapSafely([World EXCEPT !.retryTimer = Null],
                                Val(retryTimer), sdkThrows))

\* setTimeout(() => this.cleanup(), 0) of componentWillUnmount fires.
CleanupTimerFires(T, sdkRemoves) ==
  /\ cleanupTimers > 0
  /\ Commit(Cleanup([World EXCEPT !.cleanupTimers = @ - 1], T, sdkRemoves))

\* The promise of mapView.when() resolves.
WhenResolves(T, sdkRemoves) ==
  /\ initPc = "when"
  /\ isUnmounted \/ (T = {} /\ sdkRemoves)
  /\ Commit(InitAfterWhen(World, T, sdkRemoves))

\* The promise of mapView.when() rejects.
WhenRejects ==
  /\ initPc = "when"
  /\ Commit([InitFailed(World, "view failed") EXCEPT !.initPc = "done"])

\* The promise of mapView.goTo(graphics) resolves.
GoToResolves ==
  /\ initPc = "goTo"
  /\ Commit(InitFinish(World))

\* The promise of mapView.goTo(graphics) rejects.
GoToRejects ==
  /\ initPc = "goTo"
  /\ Commit([InitFailed(World, "goTo failed") EXCEPT !.initPc = "done"])

\* The user clicks on the displayed map.
Click(pos) ==
  /\ lifecycle = "mounted" /\ handlersOn
  /\ counts.events < MaxEvents
  /\ Commit(handleMapClick([World EXCEPT !.counts.events = @ + 1], pos))

\* The hit test of a click resolves.
ClickHitTestResolves(i) ==
  /\ i \in 1..Len(clickTasks)
  /\ Commit(ClickResolved([World EXCEPT !.clickTasks = RemoveAt(@, i)],
                          clickTasks[i]))

\* The hit test of a click rejects: the catch of handleMapClick, line 625.
ClickHitTestRejects(i) ==
  /\ i \in 1..Len(clickTasks)
  /\ Commit([World EXCEPT !.clickTasks = RemoveAt(@, i)])

\* The user moves the pointer over the displayed map.
PointerMove(pos) ==
  /\ lifecycle = "mounted" /\ handlersOn
  /\ counts.events < MaxEvents
  /\ Commit(handlePointerMove([World EXCEPT !.counts.events = @ + 1], pos))

\* The 100 ms hover throttle timer fires.
HoverTimerFires ==
  /\ ~IsNull(hoverTimer)
  /\ Commit(HoverTimerCallback(World))

\* The hit test of a hover resolves.
HoverHitTestResolves(i) ==
  /\ i \in 1..Len(hoverTasks)
  /\ Commit(HoverResolved([World EXCEPT !.hoverTasks = RemoveAt(@, i)],
                          hoverTasks[i]))

\* The hit test of a hover rejects: the catch at line 695.
HoverHitTestRejects(i) ==
  /\ i \in 1..Len(hoverTasks)
  /\ Commit([World EXCEPT !.hoverTasks = RemoveAt(@, i)])

\* The component with its lifecycle, timers and promises; the user moves the
\* pointer but does not click.  args may or may not have arrived at mount.
Init == Constructed /\ args \in {Null} \cup { Some(a) : a \in ArgsSet }

Next ==
  \/ \E strict \in BOOLEAN, sdkThrows \in BOOLEAN : Mount(strict, sdkThrows)
  \/ Unmount
  \/ \E a \in ArgsSet : ArgsUpdate(a)
  \/ ReRender
  \/ \E sdkThrows \in BOOLEAN : RetryTimerFires(sdkThrows)
  \/ \E T \in SUBSET CallsReachable(World), sdkRemoves \in BOOLEAN :
       CleanupTimerFires(T, sdkRemoves)
  \/ \E T \in SUBSET CallsReachable(World), sdkRemoves \in BOOLEAN :
       WhenResolves(T, sdkRemoves)
  \/ WhenRejects
  \/ GoToResolves
  \/ GoToRejects
  \/ \E pos \in Positions : PointerMove(pos)
  \/ HoverTimerFires
  \/ \E i \in 1..MaxEvents : HoverHitTestResolves(i)
  \/ \E i \in 1..MaxEvents : HoverHitTestRejects(i)

Spec == Init /\ [][Next]_vars

\* A timer of setTimeout(() => this.cleanup(), 0) fires.  CleanupTimerFires
\* is the only action that takes a timer out of cleanupTimers, and it is
\* enabled whenever one is pending, so this step is an occurrence of it.
CleanupTimerStep ==
  cleanupTimers > 0 /\ cleanupTimers' = cleanupTimers - 1

\* The browser fires a pending zero-delay timer; promises need not settle
\* and the user need not act.
Fairness == WF_cleanupTimers(CleanupTimerStep)

FairSpec == Spec /\ Fairness

\* The mounted component in use: the args are there, the SDK calls of
\* cleanup() do not throw, and the user clicks and moves the pointer.
InitUI ==
  Constructed /\ args \in { Some(a) : a \in ArgsSet \cup ArgsFlags }

NextUI ==
  \/ \E sdkThrows \in BOOLEAN : Mount(FALSE, sdkThrows)
  \/ Unmount
  \/ \E a \in ArgsSet \cup ArgsFlags : ArgsUpdate(a)
  \/ ReRender
  \/ CleanupTimerFires({}, TRUE)
  \/ WhenResolves({}, TRUE)
  \/ WhenRejects
  \/ GoToResolves
  \/ GoToRejects
  \/ \E pos \in Positions : Click(pos)
  \/ \E i \in 1..MaxEvents : ClickHitTestResolves(i)
  \/ \E i \in 1..MaxEvents : ClickHitTestRejects(i)
  \/ \E pos \in Positions : PointerMove(pos)
  \/ HoverTimerFires
  \/ \E i \in 1..MaxEvents : HoverHitTestResolves(i)
  \/ \E i \in 1..MaxEvents : HoverHitTestRejects(i)

SpecUI == InitUI /\ [][NextUI]_vars

\* The component fed with the layer args: no StrictMode, no throwing
\* cleanup calls, no user at the map.
InitLayers == Constructed /\ args \in { Some(a) : a \in ArgsLayers }

NextLayers ==
  \/ \E sdkThrows \in BOOLEAN : Mount(FALSE, sdkThrows)
  \/ Unmount
  \/ \E a \in ArgsLayers : ArgsUpdate(a)
  \/ ReRender
  \/ CleanupTimerFires({}, TRUE)
  \/ WhenResolves({}, TRUE)
  \/ WhenRejects
  \/ GoToResolves
  \/ GoToRejects

SpecLayers == InitLayers /\ [][NextLayers]_vars

\* ------------------------------------------------ the frame-height variant
\* The component of src/unnamed/part_003.  Its state starts with mapLoaded
\* true (lines 71-78), so render() never places a loading element; it never
\* calls setState; its componentWillUnmount (lines 227-236) and cleanup
\* (lines 270-385) are those of GeomapComponent.tsx.  The height, basemap,
\* center and zoom args are not part of the model's args.

\* initializeSimpleMap up to its await, part_003 lines 768-785: no check of
\* isUnmounted, of this.mapView or of the container comes before
\* `new MapView`.
initializeSimpleMap(w) ==
  LET id == w.counts.views + 1
  IN [w EXCEPT !.mapView = Some(id), !.liveViews = @ \cup {id},
               !.children = Append(@, SdkRoot), !.counts.views = id,
               !.whenTasks = @ \cup {id}]

\* componentDidMount up to the await, part_003 lines 137-142.
componentDidMountSimple(w) ==
  initializeSimpleMap([w EXCEPT !.counts.mounts = @ + 1])

\* After `await this.mapView.when()`: the rest of initializeSimpleMap
\* (lines 792-804) and of componentDidMount (lines 144-149).  Reading
\* this.mapView.center when cleanup has set this.mapView to null throws, and
\* the promise of componentDidMount rejects with nothing sent.
SimpleAfterWhen(w) ==
  IF IsNull(w.mapView) THEN w
  ELSE setComponentReady(
         SetComponentValue(w,
           [event |-> JStr("map_loaded"), basemap |-> JStr("topo-vector"),
            center |-> JArr(<< JNum(-118), JNum(34) >>), zoom |-> JNum(12),
            featuresRendered |-> JNum(0),
            featureLayersLoaded |-> JNum(Len(w.featureLayers)),
            timestamp |-> NowISO]))

\* componentDidUpdate, part_003 lines 152-225, on the graphics and the
\* feature layers.
componentDidUpdateSimple(w) ==
  IF ~IsNull(w.mapView) /\ ~IsNull(w.graphicsLayer)
  THEN LET g == Val(w.args).geojson
           a == [w EXCEPT !.layerGraphics = << >>]
           b == IF HasFeatures(g) THEN AddGraphics(a, g) ELSE a
           fl == Val(w.args).feature_layers
       IN IF ~IsNull(fl) THEN UpdateFeatureLayers(b, Val(fl)) ELSE b
  ELSE w

\* React mounts the variant; under React.StrictMode it runs
\* componentWillUnmount and componentDidMount again at once.
MountSimple(strict) ==
  /\ lifecycle = "constructed"
  /\ LET w0 == [World EXCEPT !.lifecycle = "mounted",
                             !.mapRefCurrent = TRUE,
                             !.containerConnected = TRUE,
                             !.children = << >>,
                             !.reactNodes = RenderedChildren(mapLoaded, error)]
         w1 == componentDidMountSimple(w0)
     IN Commit(IF strict
               THEN componentDidMountSimple(componentWillUnmount(w1))
               ELSE w1)

\* The host sends new args to the variant.
ArgsUpdateSimple(a) ==
  /\ lifecycle = "mounted"
  /\ counts.events < MaxEvents
  /\ Commit(componentDidUpdateSimple([World EXCEPT !.args = Some(a),
                                                   !.counts.events = @ + 1]))

\* The when() promise of a view that is not destroyed resolves.
WhenResolvesSimple(id) ==
  /\ id \in whenTasks /\ id \in liveViews
  /\ Commit(SimpleAfterWhen([World EXCEPT !.whenTasks = @ \ {id}]))

\* The when() promise of a view rejects: the promise of componentDidMount
\* rejects, unhandled.
WhenRejectsSimple(id) ==
  /\ id \in whenTasks
  /\ Commit([World EXCEPT !.whenTasks = @ \ {id}])

InitSimple ==
  ConstructedWith(TRUE) /\ args \in { Some(a) : a \in ArgsLayers }

NextSimple ==
  \/ \E strict \in BOOLEAN : MountSimple(strict)
  \/ Unmount
  \/ \E a \in ArgsLayers : ArgsUpdateSimple(a)
  \/ \E sdkRemoves \in BOOLEAN : CleanupTimerFires({}, sdkRemoves)
  \/ \E id \in 1..2 : WhenResolvesSimple(id)
  \/ \E id \in 1..2 : WhenRejectsSimple(id)

SpecSimple == InitSimple /\ [][NextSimple]_vars

\* ------------------------------------------------------------ the claims
\* The calls of one kind in the cleanup() run of the last task.
CallsOf(kind) == { i \in 1..Len(cleanupLog) : cleanupLog[i].call = kind }
Threw == { i \in 1..Len(cleanupLog) : cleanupLog[i].threw }

\* C1: every removeChild call of cleanup step 5 targets a node that is, at
\* the moment of the call, a child of the map container.
C1_RemoveChildTargetsChild ==
  \A i \in CallsOf("removeChild") : cleanupLog[i].isChild

\* C1 witness: a cleanup run in which MapView.destroy() succeeded and the
\* container was then emptied by two or more removeChild calls.
C1_Witness ==
  /\ \E i \in CallsOf("viewDestroy") : ~cleanupLog[i].threw
  /\ Cardinality(CallsOf("removeChild") \ Threw) >= 2
  /\ children = << >>

\* C2: cleanup() returns normally whatever calls throw, and every step of
\* it is reached in every run.
C2_CleanupNeverThrows ==
  cleanupRuns.ran => (~cleanupRuns.escaped /\ cleanupRuns.steps = 0..6)

\* C2 witness: a run in which MapView.destroy() and an earlier call threw
\* and removeChild was still called.
C2_Witness ==
  /\ cleanupRuns.ran
  /\ \E i \in CallsOf("viewDestroy") : cleanupLog[i].threw
  /\ \E i \in CallsOf("removeAll") : cleanupLog[i].threw
  /\ CallsOf("removeChild") # {}

\* C3 (as claimed): whenever cleanup calls MapView.destroy(), the map
\* container is attached to the document.
C3_DestroyWhileAttached ==
  \A i \in CallsOf("viewDestroy") : cleanupLog[i].connected

\* No timer, promise or re-render of the component is pending.
Quiescent ==
  /\ IsNull(retryTimer) /\ cleanupTimers = 0 /\ IsNull(hoverTimer)
  /\ initPc \notin {"when", "goTo"} /\ ~renderPending
  /\ clickTasks = << >> /\ hoverTasks = << >>

\* C4 (as claimed): after a componentDidMount that follows a
\* componentWillUnmount of the same instance, with args ready and the
\* container attached, the component does not come to rest showing neither
\* the map nor an error.
C4_RemountInitializes ==
  (/\ counts.mounts >= 2 /\ lifecycle = "mounted"
   /\ ~IsNull(args) /\ mapRefCurrent /\ containerConnected
   /\ Quiescent)
  => (mapLoaded \/ error # "")

\* C5: no MapView is created once componentWillUnmount has run.
C5_NoViewAfterUnmount == counts.lateViews = 0

\* C5 witness: the component was mounted again after an unmount, with args
\* and an attached container, and created no further view.
C5_Witness ==
  /\ counts.unmounts > 0 /\ counts.mounts = 2 /\ ~IsNull(args)
  /\ mapRefCurrent /\ containerConnected /\ IsNull(retryTimer)
  /\ counts.views <= 1

\* C6 (as claimed): a task that starts after componentWillUnmount has run
\* calls neither setState nor Streamlit.setComponentValue.
C6_QuietAfterUnmount ==
  [][counts.unmounts > 0 => (~setStateNow' /\ sentNow' = << >>)]_vars

\* Everything cleanup() is to release has been released.
Released ==
  /\ IsNull(mapView) /\ IsNull(graphicsLayer) /\ featureLayers = << >>
  /\ ~domObserver /\ ~hoverThrottleTimeout

\* C7: after one mount and one unmount, cleanup eventually runs, and from
\* its first run on the references are released and stay released.
C7_UnmountReleases ==
  /\ [](counts.mounts = 1 /\ counts.cleanups > 0 => Released)
  /\ (counts.mounts = 1 /\ counts.unmounts = 1) ~> (counts.cleanups > 0)

\* C7 witness: cleanup ran after the only unmount while initializeMap was
\* still awaiting the view, a call of it threw, and all is released.
C7_Witness ==
  /\ counts.mounts = 1 /\ counts.unmounts = 1 /\ cleanupRuns.ran
  /\ initPc = "when" /\ Threw # {} /\ Released

\* C8: in every cleanup run the calls come in the order of the steps:
\* removeHandles, graphics layer, feature layers, MapView.destroy(),
\* removeChild.
C8_CleanupOrder ==
  \A i, j \in 1..Len(cleanupLog) :
    i < j => cleanupLog[i].step <= cleanupLog[j].step

\* C8 witness: a run that made calls of all five steps.
C8_Witness ==
  { cleanupLog[i].step : i \in 1..Len(cleanupLog) } = 1..5

\* The event tags of the values sent to the host.
EventTags == { "map_clicked", "feature_hovered", "feature_selected",
               "map_loaded", "error" }

\* A value none of whose fields is an object, or an array that holds
\* objects or arrays.
IsFlat(value) ==
  \A k \in DOMAIN value :
    /\ value[k].kind # "object"
    /\ value[k].kind = "array" =>
         \A i \in 1..Len(value[k].val) :
           value[k].val[i].kind \notin {"object", "array"}

\* A value with a top-level event tag of the five and a timestamp.
IsTagged(value) ==
  /\ {"event", "timestamp"} \subseteq DOMAIN value
  /\ value.event.kind = "string" /\ value.event.val \in EventTags
  /\ value.timestamp.kind = "string"

\* C9 (as claimed): every value sent is a flat object with one of the five
\* event tags and a timestamp.
C9_FlatTaggedValues ==
  \A i \in 1..Len(sentNow) : IsTagged(sentNow[i]) /\ IsFlat(sentNow[i])

\* C9 (amended): every value sent has one of the five event tags and a
\* timestamp at its top level; the map_loaded and error values are flat,
\* the map_clicked and feature_hovered values nest objects.
C9_TaggedValues ==
  \A i \in 1..Len(sentNow) :
    /\ IsTagged(sentNow[i])
    /\ sentNow[i].event.val \in {"map_loaded", "error"} => IsFlat(sentNow[i])
    /\ sentNow[i].event.val \in {"map_clicked", "feature_hovered"} =>
         ~IsFlat(sentNow[i])

\* C9 witness: a click on a feature sent feature_selected and map_clicked.
C9_Witness ==
  /\ Len(sentNow) = 2
  /\ sentNow[1].event.val = "feature_selected"
  /\ sentNow[2].event.val = "map_clicked"
  /\ sentNow[2].feature.kind = "object"

\* C10 (as claimed): with unchanged props, when a click selected a feature
\* that was not selected and the next selecting click is on the same
\* displayed feature, each click hitting a graphic the mounted component
\* shows at the time, the selection count is back to what it was before
\* the two clicks.
C10_ClickToggles ==
  (/\ Len(counts.selections) = 2
   /\ counts.selections[1].shown /\ counts.selections[2].shown
   /\ counts.selections[1].feature = counts.selections[2].feature
   /\ counts.selections[1].after = counts.selections[1].before + 1)
  => counts.selections[2].after = counts.selections[1].before

\* The event tags of the values a sequence of sent values holds.
TagsOf(sent) == { sent[i].event.val : i \in 1..Len(sent) }

C12_HoverDisabled ==
  (~IsNull(args) /\ ~Val(args).enable_hover)
  => "feature_hovered" \notin TagsOf(sentNow)

\* C12 witness: with enable_hover false from the start, the only event was
\* a pointer move onto a feature; its hit test resolved and nothing was sent.
C12_Witness ==
  /\ ~IsNull(args) /\ ~Val(args).enable_hover
  /\ counts.events = 1
  /\ ~IsNull(lastHoveredFeature) /\ sentNow = << >>

\* What the graphics layer shows: place and attributes of its graphics.
Displayed ==
  [i \in 1..Len(layerGraphics) |->
     [longitude |-> heap[layerGraphics[i]].geometry.longitude,
      latitude |-> heap[layerGraphics[i]].geometry.latitude,
      attributes |-> heap[layerGraphics[i]].attributes]]

\* What a geojson arg asks to be shown: its Point features, in order.
Asked(geojson) ==
  IF IsNull(geojson) THEN << >>
  ELSE LET points == SelectSeq(Val(geojson),
                               LAMBDA f : f.geometry.type = "Point")
       IN [i \in 1..Len(points) |->
             [longitude |-> points[i].geometry.coordinates[1],
              latitude |-> points[i].geometry.coordinates[2],
              attributes |-> IF IsNull(points[i].properties) THEN {}
                             ELSE Val(points[i].properties)]]

\* C13 (as claimed): on a loaded map, after initialization and after every
\* componentDidUpdate, the graphics layer shows exactly the Point features
\* of the current geojson arg, in order, and nothing else.
C13_GraphicsFollowGeojson ==
  (mapLoaded /\ ~IsNull(mapView) /\ ~IsNull(graphicsLayer))
  => Displayed = Asked(Val(args).geojson)

\* Source and key of the layers of a sequence of layer objects.
Descr(objs) ==
  [i \in 1..Len(objs) |-> [src |-> objs[i].src, key |-> objs[i].key]]

\* The feature layers on the map of the view, in map order.
FeatureLayersOnMap ==
  LET ids == SelectSeq(mapLayers, LAMBDA l : InSeq(l, featureLayers))
  IN Descr([i \in 1..Len(ids) |-> layerObjs[ids[i]]])

\* C14 (as claimed): when the layers and feature_layers args are both
\* arrays and have not changed since the mount, the feature layers on the
\* map of the live view are those built from layers.
C14_LayersTakePrecedence ==
  (/\ ~IsNull(mapView) /\ Val(mapView) \in liveViews
   /\ counts.events = 0
   /\ ~IsNull(Val(args).layers) /\ ~IsNull(Val(args).feature_layers))
  => FeatureLayersOnMap = Descr(createLayersFromConfigs(Val(Val(args).layers)))

\* C15 (as claimed): a component given a list of configs as feature_layers
\* and one given the same configs, each with type 'feature', as layers
\* have the same feature layers on the map, also after the list changed.
C15_LegacyEquivalent ==
  (/\ ~IsNull(mapView) /\ Val(mapView) \in liveViews
   /\ IsNull(Val(args).layers) /\ ~IsNull(Val(args).feature_layers))
  => FeatureLayersOnMap = Descr(counts.twin)

\* What entry c of the layers arg asks for is on the map: a feature layer
\* of its url or portal item, or the graphics of its geojson data.
OnMap(c) ==
  IF c.type = "feature"
  THEN (c.url # "" \/ c.portal_item_id # "") /\ ~c.invalid
       => \E i \in 1..Len(FeatureLayersOnMap) :
            FeatureLayersOnMap[i].key \in {c.url, c.portal_item_id}
  ELSE IF c.type = "geojson"
  THEN \/ \E i \in 1..Len(mapLayers) : layerObjs[mapLayers[i]].src = "geojson"
       \/ \A j \in 1..Len(Asked(c.data)) : InSeq(Asked(c.data)[j], Displayed)
  ELSE TRUE

\* C16 (as claimed): on a loaded map, every entry of the layers arg of type
\* 'feature' with a url or portal item id, and every entry of type
\* 'geojson', has its layer or its graphics on the map.
C16_EveryLayerTypeOnMap ==
  (/\ mapLoaded /\ ~IsNull(mapView) /\ Val(mapView) \in liveViews
   /\ counts.events = 0 /\ ~IsNull(Val(args).layers))
  => \A i \in 1..Len(Val(Val(args).layers)) : OnMap(Val(Val(args).layers)[i])

\* The layers a list of feature layer configs stands for: in order, one for
\* each config with a url or a portal item id whose construction succeeds,
\* of the url when the config has one.
LayersFor(configs) ==
  LET usable == SelectSeq(configs,
                  LAMBDA c : (c.url # "" \/ c.portal_item_id # "") /\ ~c.invalid)
  IN [i \in 1..Len(usable) |->
        IF usable[i].url # ""
        THEN [src |-> "url", key |-> usable[i].url]
        ELSE [src |-> "portalItem", key |-> usable[i].portal_item_id]]

\* C17: the feature layers that createFeatureLayers made from the
\* feature_layers arg of a mounted component are, in config order, one per
\* config with a url or portal item id (the url wins), none for a config
\* with neither, and none for a config whose construction throws.
C17_OneLayerPerUsableConfig ==
  (/\ lifecycle = "mounted" /\ ~IsNull(mapView) /\ Val(mapView) \in liveViews
   /\ IsNull(Val(args).layers) /\ ~IsNull(Val(args).feature_layers))
  => FeatureLayersOnMap = LayersFor(Val(Val(args).feature_layers))

\* C17 witness: a list with a config of both keys, one of neither, one that
\* throws and one of a portal item id gave the layers of u2 and p1.
C17_Witness ==
  /\ lifecycle = "mounted" /\ ~IsNull(mapView) /\ Val(mapView) \in liveViews
  /\ IsNull(Val(args).layers) /\ ~IsNull(Val(args).feature_layers)
  /\ Val(Val(args).feature_layers) = Untyped(<< CfgBoth, CfgNone, CfgBad, CfgPortal >>)
  /\ counts.events > 0
  /\ FeatureLayersOnMap = << [src |-> "url", key |-> "u2"],
                             [src |-> "portalItem", key |-> "p1"] >>

\* C18 (as claimed): a re-render of the mounted component that a setState
\* scheduled, the args being what they were, leaves the graphics of the
\* graphics layer and the feature layer objects on the map as they are.
C18_UpdateOnlyWhatChanged ==
  [][(/\ lifecycle = "mounted" /\ lifecycle' = "mounted"
      /\ renderPending /\ ~renderPending'
      /\ args' = args /\ counts.events' = counts.events)
     => (/\ layerGraphics' = layerGraphics
         /\ featureLayers' = featureLayers
         /\ mapLayers' = mapLayers)]_vars

\* C19: every componentDidMount has sent the component-ready signal once,
\* and no initialization was started by a mount that had not yet sent it,
\* whatever became of the initializations.
C19_ReadyOncePerMount ==
  counts.ready = counts.mounts /\ counts.unready = 0

\* C19 witness: two mounts, two ready signals, and an initialization that
\* failed.
C19_Witness ==
  /\ counts.mounts = 2 /\ counts.ready = 2 /\ counts.unready = 0
  /\ error = "Failed to initialize map"

\* C20: over any sequence of mounts, updates, retries and unmounts the
\* component creates at most one MapView, so at no time do two views that
\* are not destroyed share the container.
C20_AtMostOneMapView ==
  counts.views <= 1 /\ Cardinality(liveViews) <= 1

\* C20 witness: the component was mounted, unmounted and mounted again, and
\* the one view it created is still there.
C20_Witness ==
  /\ counts.mounts = 2 /\ counts.unmounts >= 1 /\ lifecycle = "mounted"
  /\ counts.views = 1 /\ liveViews = {1}

\* The chains of initializeMapSafely calls that ended in the given way.
ChainsEnded(how) ==
  { i \in 1..Len(counts.chains) : counts.chains[i].how = how }

\* C21: a pending retry is at most the 50th; every chain a mount started
\* has either a retry pending or ended in exactly one way (initializeMap
\* called, the connection error set, stopped by the unmount); the error
\* ends a chain only after the 50th retry; initializeMap is called at most
\* once.
C21_RetryChainEnds ==
  /\ ~IsNull(retryTimer) => Val(retryTimer) \in 1..maxRetries
  /\ Len(counts.chains) + (IF IsNull(retryTimer) THEN 0 ELSE 1) = counts.mounts
  /\ \A i \in 1..Len(counts.chains) :
       /\ counts.chains[i].retries \in 0..maxRetries
       /\ counts.chains[i].how = "failed"
            => counts.chains[i].retries = maxRetries
  /\ Cardinality(ChainsEnded("initializeMap")) <= 1
  /\ ChainsEnded("failed") # {} <=> error = "Failed to connect to Streamlit"

\* C21 witness: a chain gave up after its 50th retry.
C21_Witness ==
  /\ counts.mounts = 1 /\ IsNull(retryTimer)
  /\ counts.chains = << [how |-> "failed", retries |-> maxRetries] >>
  /\ error = "Failed to connect to Streamlit"

\* C22 (as claimed): every element that render() placed in the container
\* and that React holds as mounted is a child of the container, cleanup or
\* not, and no re-render had to remove a node that was no longer a child.
C22_CleanupSparesReactNodes ==
  /\ (lifecycle = "mounted" /\ counts.cleanups > 0)
       => \A n \in reactNodes : InSeq(n, children)
  /\ counts.domErrors = {}

C24_OneInitOutcome ==
  /\ [](/\ counts.loaded <= 1
        /\ counts.loaded = 1 => (mapLoaded /\ initPc = "done" /\ counts.views = 1)
        /\ ~(counts.loaded > 0 /\ counts.errors > 0)
        /\ counts.mounts = 0 => ~mapLoaded)
  /\ [][mapLoaded => mapLoaded']_vars

\* C24 witness: map_loaded was sent, and the component was then updated
\* and unmounted.
C24_Witness ==
  /\ counts.loaded = 1 /\ counts.errors = 0 /\ mapLoaded
  /\ counts.events > 0 /\ lifecycle = "unmounted" /\ counts.cleanups > 0

\* C25 (as claimed): in the frame-height variant at most one MapView that
\* is not destroyed is attached to the container at any time, and when the
\* component is unmounted and its deferred cleanups have run, every MapView
\* it created is destroyed.
C25_SimpleViewsDestroyed ==
  /\ Cardinality(liveViews) <= 1
  /\ (lifecycle = "unmounted" /\ cleanupTimers = 0) => liveViews = {}

====
